---- MODULE Spec2Model ----
(***************************************************************************)
(* A model of network/module.py: the invertible layers of a Glow-style     *)
(* normalizing flow (ActNorm, Invertible1x1Conv, Permutation2d, Split2d,   *)
(* Squeeze2d) and the calls a driver makes on one instance of a layer.     *)
(*                                                                         *)
(* Numbers.  Tensor elements are dyadic rationals m * 2^e, kept as the     *)
(* normalised pair <<m, e>> (m odd, or <<0, 0>>), so that sums, products   *)
(* and scalings by a power of two are exact.  A log-scale is kept in units *)
(* of ln 2: exp(k) of the model is 2^k, and a log-determinant is a number  *)
(* of ln 2 units.  ActNorm's stored `logs` is kept in units of             *)
(* ln 2 / logscale_factor, so that `logs * logscale_factor` is the same    *)
(* integer read in ln 2 units.                                             *)
(*                                                                         *)
(* Tensors.  A tensor is [shape |-> <<d1, ..., dr>>, data |-> <<...>>],    *)
(* its elements in row-major (C-contiguous) order, as torch keeps them.    *)
(***************************************************************************)
EXTENDS Integers, Sequences, FiniteSets, TLC

VARIABLES
    num_channels,     \* self.num_channels of the layer under test
    batch_variance,   \* ActNorm.batch_variance
    training,         \* nn.Module.training of the ActNorm instance
    bias_inited,      \* ActNorm.bias_inited
    logs_inited,      \* ActNorm.logs_inited
    bias,             \* ActNorm.bias, one dyadic per channel
    logs,             \* ActNorm.logs, one integer per channel
    weight,           \* Invertible1x1Conv.weight, a C x C integer matrix
    indices,          \* Permutation2d.indices, 0-based
    indices_inverse,  \* Permutation2d.indices_inverse, 0-based
    factor,           \* Squeeze2d.factor
    conv2d_zeros,     \* Split2d.conv2d_zeros: its weight, bias and logs
    call,             \* the last call of forward: arguments and outcome
    orig,             \* the arguments of the call that started the chain
    train_calls,      \* history: forward calls completed in training mode
    first_call_mode   \* history: mode of the first completed forward call

an_vars    == <<batch_variance, training, bias_inited, logs_inited, bias, logs>>
hist_vars  == <<train_calls, first_call_mode>>
call_vars  == <<call, orig>>
vars == <<num_channels, an_vars, weight, indices, indices_inverse, factor,
          conv2d_zeros, call_vars, hist_vars>>

(***************************************************************************)
(* Bounds of the model.                                                    *)
(***************************************************************************)
MaxN == 2          \* ActNorm: batches <<n, C, 1, n>> for n in 1..MaxN
PrecBits == 4      \* fractional bits a mean is rounded to
TrainCallsCap == 2 \* train_calls counts up to this
ChannelCounts == {1, 2}

(***************************************************************************)
(* Optional values: None is the empty tuple, a present value a 1-tuple.    *)
(***************************************************************************)
None == <<>>
Some(v) == <<v>>

\* The({e(v) : v \in {d}}) is e(d) with d evaluated once and bound to v
The(S) == CHOOSE v \in S : TRUE

Min(a, b) == IF a <= b THEN a ELSE b
Max(a, b) == IF a >= b THEN a ELSE b

RECURSIVE Pow2(_)
Pow2(k) == IF k <= 0 THEN 1 ELSE 2 * Pow2(k - 1)

RECURSIVE FloorLog2(_)
FloorLog2(n) == IF n <= 1 THEN 0 ELSE 1 + FloorLog2(n \div 2)

(***************************************************************************)
(* Dyadic rationals.                                                       *)
(***************************************************************************)
RECURSIVE Norm(_)
Norm(d) == IF d[1] = 0 THEN <<0, 0>>
           ELSE IF d[1] % 2 = 0 THEN Norm(<<d[1] \div 2, d[2] + 1>>)
           ELSE d

D(n) == Norm(<<n, 0>>)
DNeg(a) == <<-a[1], a[2]>>
DAdd(a, b) ==
    LET e == Min(a[2], b[2])
    IN Norm(<<a[1] * Pow2(a[2] - e) + b[1] * Pow2(b[2] - e), e>>)
DSub(a, b) == DAdd(a, DNeg(b))
DMul(a, b) == Norm(<<a[1] * b[1], a[2] + b[2]>>)
\* a * exp(k), k in ln 2 units
DScale(a, k) == Norm(<<a[1], a[2] + k>>)
\* a / c for a natural c, rounded down to PrecBits fractional bits
DDivNat(a, c) ==
    LET num == a[1] * Pow2(PrecBits + Max(a[2], 0))
        den == c * Pow2(Max(-a[2], 0))
    IN Norm(<<num \div den, -PrecBits>>)
\* floor(log2(a)) for a > 0
DFloorLog2(a) == FloorLog2(a[1]) + a[2]
DIsInt(a) == a[2] >= 0
DToInt(a) == a[1] * Pow2(a[2])

\* sums and products of a sequence, by halving
RECURSIVE DSumRange(_, _, _)
DSumRange(s, lo, hi) ==
    IF lo > hi THEN <<0, 0>>
    ELSE IF lo = hi THEN s[lo]
    ELSE DAdd(DSumRange(s, lo, (lo + hi) \div 2),
              DSumRange(s, ((lo + hi) \div 2) + 1, hi))
DSum(s) == DSumRange(s, 1, Len(s))

RECURSIVE IntSumRange(_, _, _)
IntSumRange(s, lo, hi) ==
    IF lo > hi THEN 0
    ELSE IF lo = hi THEN s[lo]
    ELSE IntSumRange(s, lo, (lo + hi) \div 2)
            + IntSumRange(s, ((lo + hi) \div 2) + 1, hi)
IntSum(s) == IntSumRange(s, 1, Len(s))

RECURSIVE ProdRange(_, _, _)
ProdRange(s, lo, hi) ==
    IF lo > hi THEN 1
    ELSE IF lo = hi THEN s[lo]
    ELSE ProdRange(s, lo, (lo + hi) \div 2)
            * ProdRange(s, ((lo + hi) \div 2) + 1, hi)
Prod(s) == ProdRange(s, 1, Len(s))

(***************************************************************************)
(* Tensors.                                                                *)
(***************************************************************************)
Tensor(shape, data) == [shape |-> shape, data |-> data]
NoTensor == Tensor(<<>>, <<>>)
Rank(x) == Len(x.shape)
Numel(x) == Len(x.data)
\* the channel (0-based) of the i-th element (1-based) of a rank-4 tensor
ChannelOf(x, i) ==
    ((i - 1) \div (x.shape[3] * x.shape[4])) % x.shape[2]
\* the elements of channel c (0-based) of a rank-4 tensor, in order
ChannelData(x, c) ==
    LET hw == x.shape[3] * x.shape[4]
    IN [k \in 1..(x.shape[1] * hw) |->
           x.data[((k - 1) \div hw) * x.shape[2] * hw + c * hw
                  + ((k - 1) % hw) + 1]]
Squares(s) == [j \in 1..Len(s) |-> DMul(s[j], s[j])]

(***************************************************************************)
(* The outcome of a call of forward: the layer's state after it, the       *)
(* returned tensor and accumulator, and the exception ("" when none).      *)
(***************************************************************************)
Returned(self, y, logdet) == [self |-> self, x |-> y, logdet |-> logdet, err |-> ""]
Raised(self, e) == [self |-> self, x |-> NoTensor, logdet |-> None, err |-> e]

(***************************************************************************)
(* misc.ops: reductions over the given dimensions.                         *)
(***************************************************************************)
\* ops.reduce_mean(x, dim=[0, 2, 3], keepdim=True): one mean per channel
reduce_mean_channels(x) ==
    [c \in 1..x.shape[2] |->
        LET d == ChannelData(x, c - 1) IN DDivNat(DSum(d), Len(d))]
\* ops.reduce_mean(x, keepdim=True): the mean of all the elements
reduce_mean_all(x) == DDivNat(DSum(x.data), Numel(x))

(***************************************************************************)
(* ActNorm                                                                 *)
(***************************************************************************)
ScaleLog2 == 0     \* log2 of scale = 1.
EpsLog2 == 20      \* -log2 of the 1e-6 added to the standard deviation

ANSelf == [training |-> training, bias_inited |-> bias_inited,
           logs_inited |-> logs_inited, bias |-> bias, logs |-> logs]
Zeros(n) == [c \in 1..n |-> <<0, 0>>]
IntZeros(n) == [c \in 1..n |-> 0]

\* log(scale / (sqrt(x_var) + 1e-6)) / logscale_factor, rounded to the unit
\* the model keeps logs in
InitialLogs(x_var) ==
    IF x_var[1] <= 0 THEN ScaleLog2 + EpsLog2
    ELSE Min(ScaleLog2 + EpsLog2, ScaleLog2 - (DFloorLog2(x_var) \div 2))

\* faulty variant: the training-mode guard of initialize_bias dropped
initialize_bias_any_mode(self, x) ==
    LET x_mean == [c \in 1..x.shape[2] |-> DNeg(reduce_mean_channels(x)[c])]
    IN [self EXCEPT !.bias = x_mean, !.bias_inited = TRUE]

initialize_bias(self, x) ==
    IF ~self.training THEN self
    ELSE LET x_mean == [c \in 1..x.shape[2] |-> DNeg(reduce_mean_channels(x)[c])]
         IN [self EXCEPT !.bias = x_mean, !.bias_inited = TRUE]

\* faulty variant: initialize_logs writes logs and leaves the latch unset
initialize_logs_no_latch(self, x) ==
    IF ~self.training THEN self
    ELSE LET sq == Tensor(x.shape, Squares(x.data))
             x_var == IF batch_variance
                      THEN [c \in 1..x.shape[2] |-> reduce_mean_all(sq)]
                      ELSE reduce_mean_channels(sq)
             new == [c \in 1..x.shape[2] |-> InitialLogs(x_var[c])]
         IN [self EXCEPT !.logs = new]

initialize_logs(self, x) ==
    IF ~self.training THEN self
    ELSE LET sq == Tensor(x.shape, Squares(x.data))
             x_var == IF batch_variance
                      THEN [c \in 1..x.shape[2] |-> reduce_mean_all(sq)]
                      ELSE reduce_mean_channels(sq)
             new == [c \in 1..x.shape[2] |-> InitialLogs(x_var[c])]
         IN [self EXCEPT !.logs = new, !.logs_inited = TRUE]

\* faulty variant: the bias_inited latch is not consulted
actnorm_center_no_latch(self, x, reverse) ==
    LET s1 == initialize_bias(self, x)
        y == Tensor(x.shape,
                [i \in 1..Numel(x) |->
                    IF ~reverse
                    THEN DAdd(x.data[i], s1.bias[ChannelOf(x, i) + 1])
                    ELSE DSub(x.data[i], s1.bias[ChannelOf(x, i) + 1])])
    IN Returned(s1, y, None)

actnorm_center(self, x, reverse) ==
    LET s1 == IF ~self.bias_inited THEN initialize_bias(self, x) ELSE self
        y == Tensor(x.shape,
                [i \in 1..Numel(x) |->
                    IF ~reverse
                    THEN DAdd(x.data[i], s1.bias[ChannelOf(x, i) + 1])
                    ELSE DSub(x.data[i], s1.bias[ChannelOf(x, i) + 1])])
    IN Returned(s1, y, None)

actnorm_scale(self, x, logdet, reverse) ==
    LET s1 == IF ~self.logs_inited THEN initialize_logs(self, x) ELSE self
        lg == s1.logs
        y == Tensor(x.shape,
                [i \in 1..Numel(x) |->
                    IF ~reverse
                    THEN DScale(x.data[i], lg[ChannelOf(x, i) + 1])
                    ELSE DScale(x.data[i], -lg[ChannelOf(x, i) + 1])])
        logdet_factor == y.shape[3] * y.shape[4]
        dlogdet == IntSum(lg) * logdet_factor
        ld == IF logdet # None
              THEN Some(logdet[1] + (IF reverse THEN -dlogdet ELSE dlogdet))
              ELSE None
    IN Returned(s1, y, ld)

ActNorm_forward(self, x, logdet, reverse) ==
    IF Rank(x) # 4 THEN Raised(self, "AssertionError")
    ELSE IF x.shape[2] # num_channels THEN Raised(self, "AssertionError")
    ELSE IF ~reverse
         THEN \* center and scale
              The({actnorm_scale(c.self, c.x, logdet, reverse) :
                      c \in {actnorm_center(self, x, reverse)}})
         ELSE \* scale and center
              The({The({Returned(c.self, c.x, s.logdet) :
                           c \in {actnorm_center(s.self, s.x, reverse)}}) :
                      s \in {actnorm_scale(self, x, logdet, reverse)}})

(***************************************************************************)
(* The driver: one call of forward at a time on the layer under test.  A   *)
(* call is either fresh (its arguments drawn from the input sets) or       *)
(* chained: made on the tensor and accumulator the previous fresh call     *)
(* returned, in the opposite direction (a round trip).                     *)
(***************************************************************************)
NoCall == [x |-> NoTensor, logdet |-> None, reverse |-> FALSE,
           y |-> NoTensor, logdet_out |-> None, err |-> "no call",
           chained |-> FALSE]
NoOrig == [x |-> NoTensor, logdet |-> None, reverse |-> FALSE]
CallOf(r, x, logdet, reverse, chained) ==
    [x |-> x, logdet |-> logdet, reverse |-> reverse,
     y |-> r.x, logdet_out |-> r.logdet, err |-> r.err, chained |-> chained]
OrigOf(x, logdet, reverse) == [x |-> x, logdet |-> logdet, reverse |-> reverse]
CanChain == call.err = "" /\ ~call.chained

Logdets == {None, Some(3)}

\* the value of the i-th element under fill pattern p
PatVal(p, i) == IF p = 1 THEN (IF i % 2 = 1 THEN -2 ELSE 2) ELSE i
Patterns == {1, 2}
Fill(shape, p) == Tensor(shape, [i \in 1..Prod(shape) |-> D(PatVal(p, i))])

\* valid batches, and a rank-3, a rank-5 and a wrong-channel-count tensor
ANShapes == {<<n, num_channels, 1, n>> : n \in 1..MaxN}
ANBadShapes == {<<num_channels, 1, 1>>, <<1, num_channels, 1, 1, 1>>,
                <<1, num_channels + 1, 1, 1>>}
ANInputs == {Fill(sh, p) : sh \in ANShapes, p \in Patterns}
            \cup {Fill(sh, 2) : sh \in ANBadShapes}

other_layers == <<weight, indices, indices_inverse, factor, conv2d_zeros>>

ANInit ==
    /\ num_channels \in ChannelCounts
    /\ batch_variance \in BOOLEAN
    /\ training = TRUE
    /\ bias_inited = FALSE
    /\ logs_inited = FALSE
    /\ bias = Zeros(num_channels)
    /\ logs = IntZeros(num_channels)
    /\ weight = <<>> /\ indices = <<>> /\ indices_inverse = <<>>
    /\ factor = 0 /\ conv2d_zeros = <<>>
    /\ call = NoCall /\ orig = NoOrig
    /\ train_calls = 0
    /\ first_call_mode = "none"

\* one call of ActNorm.forward and what it leaves behind
ANCall(x, logdet, reverse, chained) ==
    \E r \in {ActNorm_forward(ANSelf, x, logdet, reverse)} :
       /\ bias' = r.self.bias
       /\ logs' = r.self.logs
       /\ bias_inited' = r.self.bias_inited
       /\ logs_inited' = r.self.logs_inited
       /\ call' = CallOf(r, x, logdet, reverse, chained)
       /\ orig' = IF chained THEN orig ELSE OrigOf(x, logdet, reverse)
       /\ train_calls' = IF r.err = "" /\ training
                         THEN Min(train_calls + 1, TrainCallsCap)
                         ELSE train_calls
       /\ first_call_mode' =
            IF first_call_mode = "none" /\ r.err = ""
            THEN (IF training THEN "train" ELSE "eval")
            ELSE first_call_mode
       /\ UNCHANGED <<num_channels, batch_variance, training, other_layers>>

ANForward ==
    \E x \in ANInputs, logdet \in Logdets, reverse \in BOOLEAN :
        ANCall(x, logdet, reverse, FALSE)

ANForwardChained ==
    /\ CanChain
    /\ ANCall(call.y, call.logdet_out, ~call.reverse, TRUE)

\* nn.Module.train() / nn.Module.eval()
ANTrain ==
    /\ ~training
    /\ training' = TRUE
    /\ UNCHANGED <<num_channels, batch_variance, bias_inited, logs_inited,
                   bias, logs, other_layers, call_vars, hist_vars>>
ANEval ==
    /\ training
    /\ training' = FALSE
    /\ UNCHANGED <<num_channels, batch_variance, bias_inited, logs_inited,
                   bias, logs, other_layers, call_vars, hist_vars>>

ANNext == ANForward \/ ANForwardChained \/ ANTrain \/ ANEval
SpecActNorm == ANInit /\ [][ANNext]_vars

(***************************************************************************)
(* Properties of ActNorm, stated for SpecActNorm. *)
(***************************************************************************)

\* C1: once a forward call has completed in training mode, every later step
\* (a forward call in either direction and either mode, on any batch) leaves
\* bias and logs as they are and both latches true.
C1_SingleShotInit ==
    [][train_calls > 0 =>
          /\ bias_inited /\ logs_inited
          /\ bias' = bias /\ logs' = logs
          /\ bias_inited' /\ logs_inited']_vars
\* a second training-mode call has completed on an initialised layer
C1_Witness ==
    /\ train_calls >= 2 /\ training /\ call.err = ""
    /\ bias_inited /\ bias # Zeros(num_channels)

\* C2: forward (non-reverse) followed by forward (reverse) on its output
\* returns the first call's input and accumulator.
C2_SelfInverse ==
    (call.chained /\ call.err = "" /\ ~orig.reverse)
        => (call.y = orig.x /\ call.logdet_out = orig.logdet)

\* C8: if the first completed call was made in non-training mode, bias and
\* logs keep their zero construction values and the latches stay false
\* ever after.
C8_SkippedForever ==
    first_call_mode = "eval" =>
        /\ bias = Zeros(num_channels) /\ logs = IntZeros(num_channels)
        /\ ~bias_inited /\ ~logs_inited
\* C8 as amended: until a forward call has completed in training mode, bias
\* and logs keep their zero construction values and the latches stay false,
\* whatever calls were made in non-training mode.
C8_SkippedUntilTraining ==
    train_calls = 0 =>
        /\ bias = Zeros(num_channels) /\ logs = IntZeros(num_channels)
        /\ ~bias_inited /\ ~logs_inited
\* two calls completed in non-training mode, none in training mode
C8_Witness ==
    /\ first_call_mode = "eval" /\ train_calls = 0
    /\ call.chained /\ call.err = "" /\ Rank(call.x) = 4

\* C10: between calls the two latches agree, and no step clears a latch.
C10_Latches ==
    /\ [](bias_inited = logs_inited)
    /\ [][(bias_inited => bias_inited') /\ (logs_inited => logs_inited')]_vars
\* both latches set, after a reverse call made in non-training mode
C10_Witness ==
    /\ bias_inited /\ logs_inited /\ ~training
    /\ call.reverse /\ call.err = ""

(***************************************************************************)
(* Squeeze2d                                                               *)
(***************************************************************************)
SqMaxN == 2        \* Squeeze2d: batch sizes 1..SqMaxN
SqMaxHW == 3       \* Squeeze2d: heights and widths 1..SqMaxHW
MaxFactor == 3     \* Squeeze2d: factors 0..MaxFactor
SqChannels == {1, 2, 4}

\* the number of elements one step along dimension k (1-based) skips
Stride(shape, k) == Prod(SubSeq(shape, k + 1, Len(shape)))

\* x.view(-1, rest...): the same elements under a new shape
ViewOk(x, rest) == Prod(rest) > 0 /\ Numel(x) % Prod(rest) = 0
View(x, rest) == Tensor(<<Numel(x) \div Prod(rest)>> \o rest, x.data)

\* x.permute(perm).contiguous(), perm 0-based: dimension k of the result is
\* dimension perm[k] of x
Permute(x, perm) ==
    LET out == [k \in 1..Len(perm) |-> x.shape[perm[k] + 1]]
        src(q) == IntSum([k \in 1..Len(perm) |->
                     ((q \div Stride(out, k)) % out[k])
                         * Stride(x.shape, perm[k] + 1)])
    IN Tensor(out, [i \in 1..Numel(x) |-> x.data[src(i - 1) + 1]])

unsqueeze(x, f) ==
    IF ~(f >= 1) THEN Raised(<<>>, "AssertionError")
    ELSE IF f = 1 THEN Returned(<<>>, x, None)
    ELSE IF Rank(x) < 4 THEN Raised(<<>>, "IndexError")
    ELSE LET nc == x.shape[2]
             nh == x.shape[3]
             nw == x.shape[4]
             to6 == <<nc \div (f * f), f, f, nh, nw>>
             to4 == <<nc \div (f * f), nh * f, nw * f>>
         IN IF ~(nc >= 4 /\ nc % 4 = 0) THEN Raised(<<>>, "AssertionError")
            ELSE IF ~ViewOk(x, to6) THEN Raised(<<>>, "RuntimeError")
            ELSE The({Returned(<<>>, View(v, to4), None) :
                         v \in {Permute(View(x, to6), <<0, 1, 4, 2, 5, 3>>)}})

squeeze(x, f) ==
    IF ~(f >= 1) THEN Raised(<<>>, "AssertionError")
    ELSE IF f = 1 THEN Returned(<<>>, x, None)
    ELSE IF Rank(x) < 4 THEN Raised(<<>>, "IndexError")
    ELSE LET nc == x.shape[2]
             nh == x.shape[3]
             nw == x.shape[4]
             to6 == <<nc, nh \div f, f, nw \div f, f>>
             to4 == <<nc * f * f, nh \div f, nw \div f>>
         IN IF ~(nh % f = 0 /\ nw % f = 0) THEN Raised(<<>>, "AssertionError")
            ELSE IF ~ViewOk(x, to6) THEN Raised(<<>>, "RuntimeError")
            ELSE The({Returned(<<>>, View(v, to4), None) :
                         v \in {Permute(View(x, to6), <<0, 1, 3, 5, 2, 4>>)}})

Squeeze2d_forward(x, logdet, reverse) ==
    The({IF r.err = "" THEN Returned(<<>>, r.x, logdet) ELSE r :
            r \in {IF ~reverse THEN squeeze(x, factor)
                   ELSE unsqueeze(x, factor)}})

\* a tensor whose elements are numbered in row-major order
Iota(shape) == Tensor(shape, [i \in 1..Prod(shape) |-> i])
\* rank-4 inputs, and a rank-3 and two rank-5 tensors
SqShapes ==
    {<<n, c, h, w>> : n \in 1..SqMaxN, c \in SqChannels,
                      h \in 1..SqMaxHW, w \in 1..SqMaxHW}
    \cup {<<4, 2, 2>>, <<1, 4, 2, 2, 2>>, <<1, 1, 1, 1, 1>>}
SqInputs == {Iota(sh) : sh \in SqShapes}

SqInit ==
    /\ factor \in 0..MaxFactor
    /\ num_channels = 0
    /\ batch_variance = FALSE /\ training = TRUE
    /\ bias_inited = FALSE /\ logs_inited = FALSE
    /\ bias = <<>> /\ logs = <<>>
    /\ weight = <<>> /\ indices = <<>> /\ indices_inverse = <<>>
    /\ conv2d_zeros = <<>>
    /\ call = NoCall /\ orig = NoOrig
    /\ train_calls = 0 /\ first_call_mode = "none"

SqCall(x, logdet, reverse, chained) ==
    \E r \in {Squeeze2d_forward(x, logdet, reverse)} :
       /\ call' = CallOf(r, x, logdet, reverse, chained)
       /\ orig' = IF chained THEN orig ELSE OrigOf(x, logdet, reverse)
       /\ UNCHANGED <<num_channels, an_vars, other_layers, hist_vars>>

SqForward ==
    \E x \in SqInputs, logdet \in Logdets, reverse \in BOOLEAN :
        SqCall(x, logdet, reverse, FALSE)

SqForwardChained ==
    /\ CanChain
    /\ SqCall(call.y, call.logdet_out, ~call.reverse, TRUE)

SqNext == SqForward \/ SqForwardChained
SpecSqueeze == SqInit /\ [][SqNext]_vars

(***************************************************************************)
(* Properties of Squeeze2d, stated for SpecSqueeze. *)
(***************************************************************************)

\* C3: for every factor f >= 1 and rank-4 x whose height and width f
\* divides, unsqueeze(squeeze(x, f), f) completes without error and returns
\* x, shape and elements.
C3_RoundTrip ==
    (/\ call.chained /\ ~orig.reverse
     /\ factor >= 1 /\ Rank(orig.x) = 4
     /\ orig.x.shape[3] % factor = 0 /\ orig.x.shape[4] % factor = 0)
        => (call.err = "" /\ call.y = orig.x)

\* C9: a call of forward on a tensor whose rank is not 4 raises: it returns
\* no output.
C9_RankValidated ==
    (call.err # "no call" /\ Rank(call.x) # 4) => call.err # ""

(***************************************************************************)
(* Permutation2d                                                           *)
(***************************************************************************)
PermMaxC == 3      \* Permutation2d: channel counts 1..PermMaxC

\* np.arange(n - 1, -1, -1): n-1, ..., 0
Reversed(n) == [i \in 1..n |-> n - i]
\* the orders np.random.shuffle can leave the n indices in
Shuffles(n) == {f \in [1..n -> 0..(n - 1)] : \A i, j \in 1..n : f[i] = f[j] => i = j}

\* faulty variant: the table is copied instead of inverted
InvertIndices_copy(ind) == ind

\* indices_inverse = zeros(n); for i in range(n): indices_inverse[indices[i]] = i
InvertIndices(ind) ==
    LET loop[i \in 0..Len(ind)] ==
            IF i = 0 THEN [k \in 1..Len(ind) |-> 0]
            ELSE [loop[i - 1] EXCEPT ![ind[i] + 1] = i - 1]
    IN loop[Len(ind)]

\* x[:, idx, :, :] for a rank-4 x and a table idx of 0-based channel numbers
IndexChannels(x, idx) ==
    LET hw == x.shape[3] * x.shape[4]
        k == Len(idx)
        src(q) == (q \div (k * hw)) * (x.shape[2] * hw)
                    + idx[((q \div hw) % k) + 1] * hw + (q % hw)
    IN Tensor(<<x.shape[1], k, x.shape[3], x.shape[4]>>,
              [i \in 1..(x.shape[1] * k * hw) |-> x.data[src(i - 1) + 1]])

Permutation2d_forward(x, reverse) ==
    IF Rank(x) # 4 THEN Raised(<<>>, "AssertionError")
    ELSE LET idx == IF ~reverse THEN indices ELSE indices_inverse
         IN IF \E k \in 1..Len(idx) : idx[k] >= x.shape[2]
            THEN Raised(<<>>, "IndexError")
            ELSE Returned(<<>>, IndexChannels(x, idx), None)

PermShapes ==
    {<<n, c, h, n>> : n \in 1..2, h \in 1..2, c \in 1..PermMaxC}
    \cup {<<2, 1, 1>>, <<1, 2, 1, 1, 1>>}
PermInputs == {Iota(sh) : sh \in PermShapes}

PermInit ==
    /\ num_channels \in 1..PermMaxC
    /\ \E shuffle \in BOOLEAN :
          indices \in IF shuffle THEN Shuffles(num_channels)
                      ELSE {Reversed(num_channels)}
    /\ indices_inverse = InvertIndices(indices)
    /\ batch_variance = FALSE /\ training = TRUE
    /\ bias_inited = FALSE /\ logs_inited = FALSE
    /\ bias = <<>> /\ logs = <<>>
    /\ weight = <<>> /\ factor = 0 /\ conv2d_zeros = <<>>
    /\ call = NoCall /\ orig = NoOrig
    /\ train_calls = 0 /\ first_call_mode = "none"

PermCall(x, reverse, chained) ==
    \E r \in {Permutation2d_forward(x, reverse)} :
       /\ call' = CallOf(r, x, None, reverse, chained)
       /\ orig' = IF chained THEN orig ELSE OrigOf(x, None, reverse)
       /\ UNCHANGED <<num_channels, an_vars, other_layers, hist_vars>>

PermForward ==
    \E x \in PermInputs, reverse \in BOOLEAN : PermCall(x, reverse, FALSE)

PermForwardChained ==
    /\ CanChain
    /\ PermCall(call.y, ~call.reverse, TRUE)

PermNext == PermForward \/ PermForwardChained
SpecPerm == PermInit /\ [][PermNext]_vars

(***************************************************************************)
(* Properties of Permutation2d, stated for SpecPerm. *)
(***************************************************************************)
IsBijection(ind, n) ==
    /\ Len(ind) = n
    /\ \A i \in 1..n : ind[i] \in 0..(n - 1)
    /\ \A v \in 0..(n - 1) : \E i \in 1..n : ind[i] = v

\* C4: indices is a bijection on 0..C-1, indices[indices_inverse[i]] = i for
\* every i, forward in one direction followed by forward in the other (in
\* either order) returns the original C-channel tensor, and no step changes
\* either table.
C4_Permutation ==
    /\ [](/\ IsBijection(indices, num_channels)
          /\ \A i \in 0..(num_channels - 1) :
                indices[indices_inverse[i + 1] + 1] = i
          /\ (/\ call.chained /\ call.err = ""
              /\ orig.x.shape[2] = num_channels) => call.y = orig.x)
    /\ [][indices' = indices /\ indices_inverse' = indices_inverse]_vars
\* a round trip through a shuffled table that is not its own inverse
C4_Witness ==
    /\ indices # indices_inverse /\ indices # Reversed(num_channels)
    /\ call.chained /\ call.err = "" /\ orig.reverse
    /\ orig.x.shape[2] = num_channels /\ call.y = orig.x /\ call.x # orig.x

(***************************************************************************)
(* Invertible1x1Conv                                                       *)
(*                                                                         *)
(* The weight is an integer matrix whose determinant is a power of two up  *)
(* to sign, so that its inverse is dyadic and log|det| is a whole number   *)
(* of ln 2 units.                                                          *)
(***************************************************************************)
ConvMaxC == 2      \* Invertible1x1Conv: channel counts 1..ConvMaxC

Abs(n) == IF n < 0 THEN -n ELSE n
Sign(n) == IF n < 0 THEN -1 ELSE 1
Drop(q, k) == [i \in 1..(Len(q) - 1) |-> IF i < k THEN q[i] ELSE q[i + 1]]
\* M without row i and column j
Minor(M, i, j) == [r \in 1..(Len(M) - 1) |-> Drop(Drop(M, i)[r], j)]

\* torch.det: cofactor expansion along the first row
RECURSIVE Det(_)
Det(M) ==
    IF Len(M) = 0 THEN 1
    ELSE IntSum([j \in 1..Len(M) |->
            (IF j % 2 = 1 THEN 1 ELSE -1) * M[1][j] * Det(Minor(M, 1, j))])

\* torch.inverse: the adjugate over the determinant
Inverse(M) ==
    LET d == Det(M)
        k == FloorLog2(Abs(d))
    IN [i \in 1..Len(M) |-> [j \in 1..Len(M) |->
            Norm(<<Sign(d) * (IF (i + j) % 2 = 0 THEN 1 ELSE -1)
                       * Det(Minor(M, j, i)), -k>>)]]
Dyadic(M) == [i \in 1..Len(M) |-> [j \in 1..Len(M) |-> D(M[i][j])]]

\* F.conv2d(x, W.view(C, C, 1, 1)): z[n, o, h, w] = sum_c W[o][c] * x[n, c, h, w]
conv1x1(x, W) ==
    LET hw == x.shape[3] * x.shape[4]
        c == x.shape[2]
        at(q, ch) == x.data[(q \div (c * hw)) * (c * hw) + ch * hw + (q % hw) + 1]
    IN Tensor(x.shape,
              [i \in 1..Numel(x) |->
                  DSum([ch \in 1..c |->
                          DMul(W[ChannelOf(x, i) + 1][ch], at(i - 1, ch - 1))])])

Invertible1x1Conv_forward(x, logdet, reverse) ==
    IF Rank(x) < 3 THEN Raised(<<>>, "IndexError")
    ELSE IF Rank(x) # 4 \/ x.shape[2] # num_channels
         THEN Raised(<<>>, "RuntimeError")
    ELSE LET logdet_factor == x.shape[2] * x.shape[3]
             dlogdet == FloorLog2(Abs(Det(weight))) * logdet_factor
         IN IF ~reverse
            THEN Returned(<<>>, conv1x1(x, Dyadic(weight)),
                          IF logdet # None THEN Some(logdet[1] + dlogdet)
                          ELSE None)
            ELSE Returned(<<>>, conv1x1(x, Inverse(weight)),
                          IF logdet # None THEN Some(logdet[1] - dlogdet)
                          ELSE None)

Identity(n) == [i \in 1..n |-> [j \in 1..n |-> IF i = j THEN 1 ELSE 0]]
\* orthogonal matrices the QR initialisation can produce
OrthogonalWeights(n) ==
    {Identity(n),
     [i \in 1..n |-> [j \in 1..n |-> IF i + j = n + 1 THEN 1 ELSE 0]],
     [i \in 1..n |-> [j \in 1..n |-> IF i # j THEN 0 ELSE IF i = 1 THEN -1 ELSE 1]]}
\* weights an optimizer can leave behind
TrainedWeights(n) ==
    {[i \in 1..n |-> [j \in 1..n |-> IF i # j THEN 0 ELSE IF i = 1 THEN 2 ELSE 1]],
     [i \in 1..n |-> [j \in 1..n |-> IF i = j THEN 2 ELSE 0]],
     [i \in 1..n |-> [j \in 1..n |-> IF i = j \/ (i = 1 /\ j = n) THEN 1 ELSE 0]]}

ConvShapes ==
    {<<1, num_channels, 1, 1>>, <<1, num_channels, 1, 2>>,
     <<2, num_channels, 2, 1>>}
ConvBadShapes ==
    {<<1, num_channels>>, <<1, num_channels, 1, 1, 1>>,
     <<1, num_channels + 1, 1, 1>>}
ConvInputs == {Fill(sh, p) : sh \in ConvShapes, p \in Patterns}
              \cup {Fill(sh, 2) : sh \in ConvBadShapes}

ConvInit ==
    /\ num_channels \in 1..ConvMaxC
    /\ weight \in OrthogonalWeights(num_channels)
    /\ batch_variance = FALSE /\ training = TRUE
    /\ bias_inited = FALSE /\ logs_inited = FALSE
    /\ bias = <<>> /\ logs = <<>>
    /\ indices = <<>> /\ indices_inverse = <<>>
    /\ factor = 0 /\ conv2d_zeros = <<>>
    /\ call = NoCall /\ orig = NoOrig
    /\ train_calls = 0 /\ first_call_mode = "none"

ConvCall(x, logdet, reverse, chained) ==
    \E r \in {Invertible1x1Conv_forward(x, logdet, reverse)} :
       /\ call' = CallOf(r, x, logdet, reverse, chained)
       /\ orig' = IF chained THEN orig ELSE OrigOf(x, logdet, reverse)
       /\ UNCHANGED <<num_channels, an_vars, other_layers, hist_vars>>

ConvForward ==
    \E x \in ConvInputs, logdet \in Logdets, reverse \in BOOLEAN :
        ConvCall(x, logdet, reverse, FALSE)

ConvForwardChained ==
    /\ CanChain
    /\ ConvCall(call.y, call.logdet_out, ~call.reverse, TRUE)

\* the optimizer writes the weight between calls; `call` keeps the last call
\* made since the weight was written
ConvOptimizerStep ==
    /\ weight' \in TrainedWeights(num_channels) \ {weight}
    /\ call' = NoCall /\ orig' = NoOrig
    /\ UNCHANGED <<num_channels, an_vars, indices, indices_inverse, factor,
                   conv2d_zeros, hist_vars>>

ConvNext == ConvForward \/ ConvForwardChained \/ ConvOptimizerStep
SpecConv == ConvInit /\ [][ConvNext]_vars

(***************************************************************************)
(* Properties of Invertible1x1Conv, stated for SpecConv. *)
(***************************************************************************)

\* C5: on an input of shape (N, C, H, W) with a present accumulator, forward
\* adds H * W * log|det(W)| to the accumulator, and reverse subtracts it.
C5_LogdetHW ==
    (call.err = "" /\ call.logdet # None) =>
        call.logdet_out =
            Some(call.logdet[1]
                 + (IF call.reverse THEN -1 ELSE 1)
                     * call.x.shape[3] * call.x.shape[4]
                     * FloorLog2(Abs(Det(weight))))

(***************************************************************************)
(* Conv2dZeros, GaussianDiag and Split2d                                   *)
(*                                                                         *)
(* Conv2dZeros keeps an integer 3x3 kernel weight[o][c][kh][kw], an        *)
(* integer bias per output channel, and logs per output channel in units   *)
(* of ln 2 / logscale_factor.  The odd output channels, which Split2d      *)
(* reads as logs, are whole numbers of ln 2 units.  A log-density is a     *)
(* combination l2pi * ln(2 pi) + ln2 * ln 2 + one with dyadic              *)
(* coefficients, kept as the record of the three.                          *)
(***************************************************************************)
SplitChannels == {2, 4}

\* element (n, c, h, w), 0-based, of a rank-4 tensor
At(x, n, c, h, w) ==
    x.data[((n * x.shape[2] + c) * x.shape[3] + h) * x.shape[4] + w + 1]
\* the 0-based position (n, c, h, w) of the q-th element (0-based)
Unravel4(shape, q) ==
    <<q \div (shape[2] * shape[3] * shape[4]),
      (q \div (shape[3] * shape[4])) % shape[2],
      (q \div shape[4]) % shape[3],
      q % shape[4]>>

\* nn.Conv2d with a 3x3 kernel, stride 1 and padding 1, then
\* x *= exp(logs * logscale_factor)
Conv2dZeros_forward(p, x) ==
    IF Rank(x) # 4 \/ x.shape[2] # Len(p.weight[1])
    THEN Raised(<<>>, "RuntimeError")
    ELSE LET cin == x.shape[2]
             shape == <<x.shape[1], Len(p.bias), x.shape[3], x.shape[4]>>
             tap(ix, t) ==
                 LET c == (t - 1) \div 9
                     kh == ((t - 1) \div 3) % 3
                     kw == (t - 1) % 3
                     h == ix[3] + kh - 1
                     w == ix[4] + kw - 1
                 IN IF h \in 0..(x.shape[3] - 1) /\ w \in 0..(x.shape[4] - 1)
                    THEN DMul(D(p.weight[ix[2] + 1][c + 1][kh + 1][kw + 1]),
                              At(x, ix[1], c, h, w))
                    ELSE <<0, 0>>
             elem(ix) ==
                 DScale(DAdd(D(p.bias[ix[2] + 1]),
                             DSum([t \in 1..(cin * 9) |-> tap(ix, t)])),
                        p.logs[ix[2] + 1])
         IN Returned(<<>>,
                     Tensor(shape, [i \in 1..Prod(shape) |->
                                       elem(Unravel4(shape, i - 1))]),
                     None)

\* the 0-based channel numbers from, from + step, ... below n
ChannelRange(from, n, step) ==
    [k \in 1..((n - from + step - 1) \div step) |-> from + (k - 1) * step]

\* Split2d.prior: mean is h[:, 0::2], logs is h[:, 1::2]
prior(z) ==
    The({IF h.err # "" THEN [err |-> h.err, mean |-> NoTensor, logs |-> NoTensor]
         ELSE [err |-> "",
               mean |-> IndexChannels(h.x, ChannelRange(0, h.x.shape[2], 2)),
               logs |-> IndexChannels(h.x, ChannelRange(1, h.x.shape[2], 2))] :
            h \in {Conv2dZeros_forward(conv2d_zeros, z)}})

\* GaussianDiag.logps for one element
logps(mean, lg, x) ==
    [l2pi |-> <<-1, -1>>,
     ln2 |-> DNeg(lg),
     one |-> DNeg(DScale(DMul(DSub(x, mean), DSub(x, mean)),
                         -(2 * DToInt(lg)) - 1))]
LogAdd(a, b) == [l2pi |-> DAdd(a.l2pi, b.l2pi), ln2 |-> DAdd(a.ln2, b.ln2),
                 one |-> DAdd(a.one, b.one)]
LogSum(q) == [l2pi |-> DSum([j \in 1..Len(q) |-> q[j].l2pi]),
              ln2 |-> DSum([j \in 1..Len(q) |-> q[j].ln2]),
              one |-> DSum([j \in 1..Len(q) |-> q[j].one])]
\* GaussianDiag.logp: logps summed over all but the batch dimension
logp(mean, lg, x) ==
    LET per == Numel(x) \div x.shape[1]
    IN [n \in 1..x.shape[1] |->
           LogSum([j \in 1..per |->
                      logps(mean.data[(n - 1) * per + j],
                            lg.data[(n - 1) * per + j],
                            x.data[(n - 1) * per + j])])]

\* GaussianDiag.sample, eps being what torch.randn_like(mean) drew
sample(mean, lg, eps) ==
    Tensor(mean.shape,
           [i \in 1..Numel(mean) |->
               DAdd(mean.data[i], DScale(eps.data[i], DToInt(lg.data[i])))])

\* torch.cat((z1, z2), dim=1)
cat(z1, z2) ==
    LET shape == <<z1.shape[1], z1.shape[2] + z2.shape[2], z1.shape[3], z1.shape[4]>>
        elem(ix) == IF ix[2] < z1.shape[2]
                    THEN At(z1, ix[1], ix[2], ix[3], ix[4])
                    ELSE At(z2, ix[1], ix[2] - z1.shape[2], ix[3], ix[4])
    IN Tensor(shape, [i \in 1..Prod(shape) |-> elem(Unravel4(shape, i - 1))])

\* Split2d.forward.  Its non-reverse branch reads `input`, which names no
\* parameter, local or module global: it is the builtin function, and
\* `input.shape` raises AttributeError.
Split2d_forward(x, logdet, reverse, eps) ==
    IF ~reverse THEN Raised(<<>>, "AttributeError")
    ELSE The({IF pr.err # "" THEN Raised(<<>>, pr.err)
              ELSE Returned(<<>>, cat(x, sample(pr.mean, pr.logs, eps)), logdet) :
                 pr \in {prior(x)}})

ZeroKernel(cout, cin) ==
    [o \in 1..cout |-> [c \in 1..cin |-> [kh \in 1..3 |-> [kw \in 1..3 |-> 0]]]]
\* a kernel with one tap per output channel: the input pixel itself
\* (d = 0) or its left neighbour (d = 1)
TapKernel(cout, cin, d) ==
    [o \in 1..cout |-> [c \in 1..cin |-> [kh \in 1..3 |-> [kw \in 1..3 |->
        IF c = ((o - 1) % cin) + 1 /\ kh = 2 /\ kw = 2 - d THEN 1 ELSE 0]]]]
\* Conv2dZeros(num_channels // 2, num_channels) as constructed
ZeroConv(n) == [weight |-> ZeroKernel(n, n \div 2), bias |-> IntZeros(n),
                logs |-> IntZeros(n)]
\* parameters an optimizer can leave behind
TrainedConvs(n) ==
    {[weight |-> TapKernel(n, n \div 2, 0), bias |-> IntZeros(n), logs |-> IntZeros(n)],
     [weight |-> TapKernel(n, n \div 2, 1), bias |-> [o \in 1..n |-> 1],
      logs |-> [o \in 1..n |-> o % 2]]}

SplitShapes ==
    {<<n, c, n, n>> : n \in 1..2, c \in {num_channels \div 2, num_channels}}
    \cup {<<1, num_channels \div 2, 1, 1, 1>>}
SplitInputs == {Fill(sh, p) : sh \in SplitShapes, p \in Patterns}

SplitInit ==
    /\ num_channels \in SplitChannels
    /\ conv2d_zeros = ZeroConv(num_channels)
    /\ batch_variance = FALSE /\ training = TRUE
    /\ bias_inited = FALSE /\ logs_inited = FALSE
    /\ bias = <<>> /\ logs = <<>>
    /\ weight = <<>> /\ indices = <<>> /\ indices_inverse = <<>>
    /\ factor = 0
    /\ call = NoCall /\ orig = NoOrig
    /\ train_calls = 0 /\ first_call_mode = "none"

SplitCall(x, logdet, reverse, chained) ==
    \E p \in Patterns :
    \E r \in {Split2d_forward(x, logdet, reverse, Fill(x.shape, p))} :
       /\ call' = CallOf(r, x, logdet, reverse, chained)
       /\ orig' = IF chained THEN orig ELSE OrigOf(x, logdet, reverse)
       /\ UNCHANGED <<num_channels, an_vars, other_layers, hist_vars>>

SplitForward ==
    \E x \in SplitInputs, logdet \in Logdets, reverse \in BOOLEAN :
        SplitCall(x, logdet, reverse, FALSE)

SplitForwardChained ==
    /\ CanChain
    /\ SplitCall(call.y, call.logdet_out, ~call.reverse, TRUE)

\* the optimizer writes the parameters between calls; `call` keeps the last
\* call made since they were written
SplitOptimizerStep ==
    /\ conv2d_zeros' \in TrainedConvs(num_channels) \ {conv2d_zeros}
    /\ call' = NoCall /\ orig' = NoOrig
    /\ UNCHANGED <<num_channels, an_vars, weight, indices, indices_inverse,
                   factor, hist_vars>>

SplitNext == SplitForward \/ SplitForwardChained \/ SplitOptimizerStep
SpecSplit == SplitInit /\ [][SplitNext]_vars

(***************************************************************************)
(* Properties of Split2d, stated for SpecSplit. *)
(***************************************************************************)
\* an input Split2d.forward is meant for: num_channels channels going
\* forward, the retained half in reverse
SplitValid(c) ==
    /\ c.err # "no call" /\ Rank(c.x) = 4
    /\ c.x.shape[2] = IF c.reverse THEN num_channels \div 2 ELSE num_channels

\* C6: a call with an absent accumulator and a valid input completes without
\* error and returns an absent accumulator, in both directions.
C6_AbsentLogdet ==
    (SplitValid(call) /\ call.logdet = None)
        => (call.err = "" /\ call.logdet_out = None)

\* the accumulator C7 expects: logdet plus the Gaussian log-density of the
\* second half under the (mean, logs) computed from the first half
SplitExpectedLogdet(x, logdet) ==
    LET nc == x.shape[2]
        z1 == IndexChannels(x, ChannelRange(0, nc \div 2, 1))
        z2 == IndexChannels(x, ChannelRange(nc \div 2, nc, 1))
        pr == prior(z1)
        lp == logp(pr.mean, pr.logs, z2)
    IN [n \in 1..x.shape[1] |->
           LogAdd([l2pi |-> <<0, 0>>, ln2 |-> D(logdet), one |-> <<0, 0>>], lp[n])]

\* C7: forward (non-reverse) on x with a present accumulator returns the
\* first-half channel block of x, and the accumulator plus the log-density
\* of the second half.
C7_SplitForward ==
    (SplitValid(call) /\ ~call.reverse /\ call.logdet # None)
        => /\ call.err = ""
           /\ call.y = IndexChannels(call.x,
                          ChannelRange(0, call.x.shape[2] \div 2, 1))
           /\ call.logdet_out = Some(SplitExpectedLogdet(call.x, call.logdet[1]))

====
